---- MODULE Spec2Model ----
(***************************************************************************)
(* Model of extract_iso27000.py: the batch run that reads the ISO 27000    *)
(* workbook, builds the term nodes, derives the cross-reference links,     *)
(* sorts the nodes, and writes the graph document to two destinations.     *)
(*                                                                         *)
(* A Python str is modelled as a sequence of one-character strings, so     *)
(* that strip, the regular expression, str.replace, float() and the        *)
(* lexicographic order of sorted() are computed character by character.    *)
(* A missing cell (pandas NaN) is the one-element sequence <<"NaN">>,      *)
(* which no text can equal because its element is not a single character.  *)
(***************************************************************************)
EXTENDS Integers, Sequences, FiniteSets, TLC

\* ------------------------------------------------------------------ bounds
\* Largest number of rows in the workbook.
MaxRows == 3

\* ------------------------------------------------------------- characters
\* The characters of the model in code-point order; Ord gives the rank that
\* Python's string comparison uses.
Chars ==
  << " ", "(", ")", "+", "-", ".",
     "0", "1", "2", "3", "4", "5", "6", "7", "8", "9", "_",
     "a", "b", "c", "d", "e", "f", "g", "h", "i", "j", "k", "l", "m",
     "n", "o", "p", "q", "r", "s", "t", "u", "v", "w", "x", "y", "z" >>

Ord(c) == CHOOSE i \in 1..Len(Chars) : Chars[i] = c

DigitChars == <<"0", "1", "2", "3", "4", "5", "6", "7", "8", "9">>

IsDigit(c) == \E i \in 1..10 : DigitChars[i] = c

DigitVal(c) == (CHOOSE i \in 1..10 : DigitChars[i] = c) - 1

IsSpace(c) == c = " "

\* pandas' missing value, and pd.isna / pd.notna on a cell.
NaN == <<"NaN">>

IsNa(cell) == cell = NaN

NotNa(cell) == cell # NaN

\* str(cell): a missing cell prints as the text nan.
Str(cell) == IF IsNa(cell) THEN <<"n", "a", "n">> ELSE cell

RECURSIVE LStrip(_)
LStrip(s) ==
  IF s # <<>> /\ IsSpace(Head(s)) THEN LStrip(Tail(s)) ELSE s

RECURSIVE RStrip(_)
RStrip(s) ==
  IF s # <<>> /\ IsSpace(s[Len(s)]) THEN RStrip(SubSeq(s, 1, Len(s) - 1)) ELSE s

\* str.strip()
Strip(s) == RStrip(LStrip(s))

\* s[i..] starts with p
StartsAt(s, i, p) ==
  /\ i + Len(p) - 1 <= Len(s)
  /\ \A k \in 1..Len(p) : s[i + k - 1] = p[k]

\* Python's < on str: lexicographic by code point.
RECURSIVE StrLess(_, _)
StrLess(a, b) ==
  IF b = <<>> THEN FALSE
  ELSE IF a = <<>> THEN TRUE
  ELSE IF Head(a) = Head(b) THEN StrLess(Tail(a), Tail(b))
  ELSE Ord(Head(a)) < Ord(Head(b))

\* ------------------------------------------------------ cross references
\* Length of the run of digits of s that starts at position i.
RECURSIVE DigitRun(_, _)
DigitRun(s, i) ==
  IF i <= Len(s) /\ IsDigit(s[i]) THEN 1 + DigitRun(s, i + 1) ELSE 0

\* CROSS_REF_PATTERN = \(3\.(\d+)\) tried at position i of s: len is the
\* length of the match (0 when the pattern does not match there) and group
\* the digits it captures.  \d+ is greedy, and a shorter run of digits is
\* followed by a digit, never by ")", so only the whole run can match.
NoMatch == [len |-> 0, group |-> <<>>]

\* Variant: the pattern without its parentheses, 3\.(\d+).
CrossRefMatchNoParens(s, i) ==
  LET d == DigitRun(s, i + 2)
  IN IF StartsAt(s, i, <<"3", ".">>) /\ d > 0
     THEN [len |-> d + 2, group |-> SubSeq(s, i + 2, i + 1 + d)]
     ELSE NoMatch

CrossRefMatch(s, i) ==
  LET d == DigitRun(s, i + 3)
  IN IF /\ StartsAt(s, i, <<"(", "3", ".">>)
        /\ d > 0
        /\ i + 3 + d <= Len(s)
        /\ s[i + 3 + d] = ")"
     THEN [len |-> d + 4, group |-> SubSeq(s, i + 3, i + 2 + d)]
     ELSE NoMatch

\* CROSS_REF_PATTERN.findall(s) from position i on: the groups of all
\* non-overlapping matches, left to right.
RECURSIVE FindAll(_, _)
FindAll(s, i) ==
  IF i > Len(s) THEN <<>>
  ELSE LET m == CrossRefMatch(s, i)
       IN IF m.len > 0
          THEN <<m.group>> \o FindAll(s, i + m.len)
          ELSE FindAll(s, i + 1)

\* Variant: only the first match is returned, as with search for findall.
extract_cross_refs_first_only(text) ==
  IF text = <<>> \/ IsNa(text) THEN <<>>
  ELSE LET matches == FindAll(text, 1)
       IN [k \in 1..(IF matches = <<>> THEN 0 ELSE 1) |-> <<"3", ".">> \o matches[k]]

extract_cross_refs(text) ==
  IF text = <<>> \/ IsNa(text) THEN <<>>
  ELSE LET matches == FindAll(text, 1)
       IN [k \in 1..Len(matches) |-> <<"3", ".">> \o matches[k]]

\* --------------------------------------------------------------- sort key
\* str.replace(old, ""): every non-overlapping occurrence of old, left to
\* right, is removed.
RECURSIVE RemoveAll(_, _)
RemoveAll(s, old) ==
  IF s = <<>> THEN <<>>
  ELSE IF StartsAt(s, 1, old) THEN RemoveAll(SubSeq(s, Len(old) + 1, Len(s)), old)
  ELSE <<Head(s)>> \o RemoveAll(Tail(s), old)

\* A float is the decimal m * 10^(-f), or nan, or +-inf.
Num(m, f) == [kind |-> "num", m |-> m, f |-> f]

NanKey == [kind |-> "nan", m |-> 0, f |-> 0]

InfKey(neg) == [kind |-> IF neg THEN "ninf" ELSE "inf", m |-> 0, f |-> 0]

\* raised ValueError
Bad == [kind |-> "bad", m |-> 0, f |-> 0]

RECURSIVE Pow10(_)
Pow10(n) == IF n <= 0 THEN 1 ELSE 10 * Pow10(n - 1)

\* A group of digits of a float literal: digits, with single underscores
\* allowed between digits only.
RECURSIVE DigitGroup(_)
DigitGroup(s) ==
  /\ s # <<>>
  /\ IsDigit(Head(s))
  /\ \/ Len(s) = 1
     \/ DigitGroup(Tail(s))
     \/ Len(s) >= 3 /\ s[2] = "_" /\ DigitGroup(SubSeq(s, 3, Len(s)))

RECURSIVE DigitsOf(_)
DigitsOf(s) ==
  IF s = <<>> THEN <<>>
  ELSE IF s[1] = "_" THEN DigitsOf(Tail(s))
  ELSE <<s[1]>> \o DigitsOf(Tail(s))

\* value of a sequence of digits
RECURSIVE NatOf(_)
NatOf(ds) ==
  IF ds = <<>> THEN 0 ELSE 10 * NatOf(SubSeq(ds, 1, Len(ds) - 1)) + DigitVal(ds[Len(ds)])

\* position of the first c in s, or Len(s) + 1
IndexOf(s, c) ==
  CHOOSE i \in 1..(Len(s) + 1) :
    /\ i = Len(s) + 1 \/ s[i] = c
    /\ \A j \in 1..(i - 1) : s[j] # c

\* The unsigned decimal literal  digits [. [digits]] | . digits , each with
\* an optional exponent  e [+|-] digits .
ParseDecimal(s) ==
  LET e    == IndexOf(s, "e")
      mant == SubSeq(s, 1, e - 1)
      expo == SubSeq(s, e + 1, Len(s))
      eneg == expo # <<>> /\ expo[1] = "-"
      edig == IF expo # <<>> /\ expo[1] \in {"+", "-"} THEN Tail(expo) ELSE expo
      dot  == IndexOf(mant, ".")
      ip   == SubSeq(mant, 1, dot - 1)
      fp   == SubSeq(mant, dot + 1, Len(mant))
      ok   == /\ ip # <<>> \/ fp # <<>>
              /\ ip = <<>> \/ DigitGroup(ip)
              /\ fp = <<>> \/ DigitGroup(fp)
              /\ e > Len(s) \/ DigitGroup(edig)
      ex   == IF e > Len(s) THEN 0
              ELSE IF eneg THEN 0 - NatOf(DigitsOf(edig)) ELSE NatOf(DigitsOf(edig))
  IN IF ok
     THEN Num(NatOf(DigitsOf(ip) \o DigitsOf(fp)), Len(DigitsOf(fp)) - ex)
     ELSE Bad

\* float(text): surrounding whitespace is ignored, then an optional sign,
\* then nan, inf, infinity or a decimal literal.
ParseFloat(text) ==
  LET s    == Strip(text)
      neg  == s # <<>> /\ s[1] = "-"
      body == IF s # <<>> /\ s[1] \in {"+", "-"} THEN Tail(s) ELSE s
  IN IF body = <<"n", "a", "n">> THEN NanKey
     ELSE IF body \in { <<"i", "n", "f">>, <<"i", "n", "f", "i", "n", "i", "t", "y">> }
          THEN InfKey(neg)
     ELSE LET d == ParseDecimal(body)
          IN IF d.kind = "bad" THEN Bad
             ELSE Num(IF neg THEN 0 - d.m ELSE d.m, d.f)

\* sort_key(x) for x["id"] = id: the except branch returns 0.
sort_key(id) ==
  LET v == ParseFloat(RemoveAll(id, <<"3", ".">>))
  IN IF v.kind = "bad" THEN Num(0, 0) ELSE v

\* Python's < on two keys; every comparison with nan is False.
KeyLess(a, b) ==
  IF a.kind = "nan" \/ b.kind = "nan" THEN FALSE
  ELSE IF a.kind = "ninf" THEN b.kind # "ninf"
  ELSE IF b.kind = "inf" THEN a.kind # "inf"
  ELSE IF a.kind = "inf" \/ b.kind = "ninf" THEN FALSE
  ELSE LET F == IF a.f > b.f THEN a.f ELSE b.f
       IN a.m * Pow10(F - a.f) < b.m * Pow10(F - b.f)

\* ------------------------------------------------------------------ nodes
BASE_URI == <<"https://wiren301.github.io/iso27001-skos-taxonomy/">>

\* Hub terms marked as top concepts.
hub_terms == { <<"3", ".", "2", "8">>, <<"3", ".", "4", "1">>, <<"3", ".", "6", "4">> }

\* The three fields the loop reads from a row.
TermIdOf(row) == Strip(Str(row.Term_ID))

TermOf(row) == IF NotNa(row.Term) THEN Strip(Str(row.Term)) ELSE <<>>

DefinitionOf(row) == IF NotNa(row.Definition) THEN Strip(Str(row.Definition)) ELSE <<>>

\* if not term_id or not term: continue
Skipped(row) == TermIdOf(row) = <<>> \/ TermOf(row) = <<>>

\* The notes of a row: the non-blank Note_1..Note_6 cells, stripped, in
\* column order.  A column the sheet does not have reads as a missing cell.
RECURSIVE NotesOf(_, _)
NotesOf(row, i) ==
  IF i > 6 THEN <<>>
  ELSE IF NotNa(row.Notes[i]) /\ Strip(Str(row.Notes[i])) # <<>>
       THEN <<Strip(Str(row.Notes[i]))>> \o NotesOf(row, i + 1)
       ELSE NotesOf(row, i + 1)

\* The node appended for a row that is not skipped.
NodeOf(row) ==
  [ id           |-> TermIdOf(row),
    label        |-> TermOf(row),
    definition   |-> DefinitionOf(row),
    notes        |-> NotesOf(row, 1),
    uri          |-> BASE_URI \o <<"27000/term/">> \o TermIdOf(row),
    inScheme     |-> BASE_URI \o <<"27000/VocabularyScheme">>,
    isTopConcept |-> TermIdOf(row) \in hub_terms,
    related      |-> extract_cross_refs(DefinitionOf(row)) ]

\* The row loop: the nodes in row order.
RECURSIVE NodesOfRows(_)
NodesOfRows(rows) ==
  IF rows = <<>> THEN <<>>
  ELSE IF Skipped(Head(rows)) THEN NodesOfRows(Tail(rows))
  ELSE <<NodeOf(Head(rows))>> \o NodesOfRows(Tail(rows))

IdsOf(ns) == { ns[i].id : i \in 1..Len(ns) }

\* Filter related to only include valid term IDs.
RECURSIVE KeepRefs(_, _, _)
KeepRefs(refs, ids, own) ==
  IF refs = <<>> THEN <<>>
  ELSE IF Head(refs) \in ids /\ Head(refs) # own
       THEN <<Head(refs)>> \o KeepRefs(Tail(refs), ids, own)
       ELSE KeepRefs(Tail(refs), ids, own)

\* Variant: the filter without  ref != node["id"].
FilterNodeKeepSelf(node, ids) ==
  [node EXCEPT !.related = KeepRefs(@, ids, <<>>)]

FilterNode(node, ids) ==
  [node EXCEPT !.related = KeepRefs(@, ids, node.id)]

\* for node in nodes: node["related"] = [...]
RECURSIVE FilterNodes(_, _)
FilterNodes(ns, ids) ==
  IF ns = <<>> THEN <<>>
  ELSE <<FilterNode(Head(ns), ids)>> \o FilterNodes(Tail(ns), ids)

\* ------------------------------------------------------------------ links
\* Variant: the key without sorted().
LinkKeyUnsorted(a, b) == <<a, b>>

\* tuple(sorted([a, b]))
LinkKey(a, b) == IF StrLess(b, a) THEN <<b, a>> ELSE <<a, b>>

Link(key) == [source |-> key[1], target |-> key[2], type |-> "related"]

\* The inner loop over one node's related list; acc is (links, seen_links).
RECURSIVE ScanRelated(_, _, _)
ScanRelated(id, related, acc) ==
  IF related = <<>> THEN acc
  ELSE LET link_key == LinkKey(id, Head(related))
       IN ScanRelated(id, Tail(related),
            IF link_key \notin acc.seen
            THEN [links |-> Append(acc.links, Link(link_key)),
                  seen  |-> acc.seen \cup {link_key}]
            ELSE acc)

RECURSIVE ScanNodes(_, _)
ScanNodes(ns, acc) ==
  IF ns = <<>> THEN acc
  ELSE ScanNodes(Tail(ns), ScanRelated(Head(ns).id, Head(ns).related, acc))

RECURSIVE Reverse(_)
Reverse(s) == IF s = <<>> THEN <<>> ELSE Append(Reverse(Tail(s)), Head(s))

\* Variant: each new link is put in front, links.insert(0, ...).
BuildLinksPrepend(ns) ==
  LET r == ScanNodes(ns, [links |-> <<>>, seen |-> {}])
  IN [links |-> Reverse(r.links), seen |-> r.seen]

\* Build links (deduplicated, symmetric).
BuildLinks(ns) == ScanNodes(ns, [links |-> <<>>, seen |-> {}])

\* ------------------------------------------------------------------- sort
\* list.sort is stable and compares keys with < only: each node goes before
\* the first node whose key is greater.
RECURSIVE InsertByKey(_, _)
InsertByKey(x, s) ==
  IF s = <<>> THEN <<x>>
  ELSE IF KeyLess(sort_key(x.id), sort_key(Head(s).id)) THEN <<x>> \o s
  ELSE <<Head(s)>> \o InsertByKey(x, Tail(s))

RECURSIVE StableSort(_)
StableSort(ns) ==
  IF ns = <<>> THEN <<>>
  ELSE InsertByKey(ns[Len(ns)], StableSort(SubSeq(ns, 1, Len(ns) - 1)))

HasNanKey(ns) == \E i \in 1..Len(ns) : sort_key(ns[i].id).kind = "nan"

\* The lists nodes.sort(key=sort_key) can leave.  A nan key compares False
\* with every key, the keys are then not totally ordered and the order the
\* sort leaves is unspecified: any arrangement of the nodes.
SortOutcomes(ns) ==
  IF HasNanKey(ns)
  THEN { [i \in 1..Len(ns) |-> ns[p[i]]] : p \in Permutations(1..Len(ns)) }
  ELSE { StableSort(ns) }

\* --------------------------------------------------------------- metadata
RECURSIVE CountTop(_)
CountTop(ns) ==
  IF ns = <<>> THEN 0
  ELSE (IF Head(ns).isTopConcept THEN 1 ELSE 0) + CountTop(Tail(ns))

RECURSIVE CountRelated(_)
CountRelated(ns) ==
  IF ns = <<>> THEN 0 ELSE Len(Head(ns).related) + CountRelated(Tail(ns))

\* Variant: totalRelationships counts the related entries, not the links.
StatsByRelated(ns, ls) ==
  [ totalTerms |-> Len(ns), totalRelationships |-> CountRelated(ns), topConcepts |-> CountTop(ns) ]

Stats(ns, ls) ==
  [ totalTerms |-> Len(ns), totalRelationships |-> Len(ls), topConcepts |-> CountTop(ns) ]

Metadata(ns, ls) ==
  [ source |-> [file |-> "schemas/ISO27000_2018_EXTRACTED.xlsx", type |-> "Excel"],
    scheme |-> [uri |-> BASE_URI \o <<"27000/VocabularyScheme">>,
                label |-> "ISO/IEC 27000:2018 Information Security Vocabulary",
                description |-> "77 terms and definitions for information security management systems"],
    stats  |-> Stats(ns, ls) ]

Document(ns, ls) == [nodes |-> ns, links |-> ls, metadata |-> Metadata(ns, ls)]

\* ----------------------------------------------------------------- inputs
T32 == <<"3", ".", "2">>

T310 == <<"3", ".", "1", "0">>

T328 == <<"3", ".", "2", "8">>

T341 == <<"3", ".", "4", "1">>

T364 == <<"3", ".", "6", "4">>

T399 == <<"3", ".", "9", "9">>

T37a == <<"3", ".", "7", "a">>

T7 == <<"7">>

Risk == <<"r", "i", "s", "k">>

InformationSecurity == <<"i", "n", "f", "o", "r", "m", "a", "t", "i", "o", "n", " ", "s", "e", "c", "u", "r", "i", "t", "y">>

\* "preservation of confidentiality... (see 3.41 and 3.64)"
SeeText ==
  <<"p", "r", "e", "s", "e", "r", "v", "a", "t", "i", "o", "n", " ", "o", "f", " ", "c", "o", "n", "f", "i", "d", "e", "n", "t", "i", "a", "l", "i", "t", "y">>
  \o <<".", ".", ".", " ", "(", "s", "e", "e", " ", "3", ".", "4", "1", " ", "a", "n", "d", " ", "3", ".", "6", "4", ")">>

\* The cross-reference "(id)" as it is written in a definition.
Ref(id) == <<"(">> \o id \o <<")">>

NoNotes == <<NaN, NaN, NaN, NaN, NaN, NaN>>

Row(id, term, def) == [Term_ID |-> id, Term |-> term, Definition |-> def, Notes |-> NoNotes]

\* The rows a workbook is made of: well-formed ids with references from one
\* side, both sides, repeated, to themselves and to ids no row has; ids that
\* need trimming; ids without the 3.<digits> shape; missing and blank cells.
Rows ==
  { Row(T32, Risk, Ref(T310) \o Ref(T37a) \o Ref(T7)),
    Row(T310, Risk, Ref(T32) \o Ref(T32)),
    [Row(T328, Risk, Ref(T32) \o <<" ">> \o Ref(T310))
       EXCEPT !.Notes = << <<" ", "n", "b", " ">>, NaN, <<" ">>, Risk, NaN, NaN >>],
    Row(<<" ">> \o T32 \o <<" ">>, Risk, Ref(T32) \o Ref(T399)),
    Row(T37a, Risk, Ref(T32)),
    Row(T7, Risk, Ref(T328)),
    Row(NaN, Risk, <<>>),
    Row(<<" ">>, Risk, NaN),
    Row(T310, NaN, Ref(T32)),
    Row(T328, InformationSecurity, SeeText),
    Row(T341, Risk, NaN),
    Row(T364, Risk, Ref(T328)) }

\* What excel_path can hold: a sheet of up to MaxRows rows, nothing, or a
\* file that is not a workbook.
Workbooks ==
  { [status |-> "ok", rows |-> r] : r \in UNION { [1..n -> Rows] : n \in 0..MaxRows } }
  \cup { [status |-> "missing", rows |-> <<>>], [status |-> "corrupt", rows |-> <<>>] }

OutputPaths == <<"output/iso27000-graph.json", "docs/iso27000-graph.json">>

NoDocument == [nodes |-> <<>>, links |-> <<>>, metadata |-> Metadata(<<>>, <<>>)]

\* The content of an output path: no file, a file of an earlier run, a file
\* cut short by a failed write, or the dumped document.
Absent == [state |-> "absent", json |-> NoDocument]

Stale == [state |-> "stale", json |-> NoDocument]

Partial == [state |-> "partial", json |-> NoDocument]

Dumped(doc) == [state |-> "written", json |-> doc]

FilesAtStart == [p \in {OutputPaths[1], OutputPaths[2]} |->
                   IF p = OutputPaths[1] THEN Stale ELSE Absent]

\* ------------------------------------------------------------------ state
VARIABLES
  excel,       \* the file at excel_path
  files,       \* the content of each output path
  pc,          \* the position of the run
  df,          \* the rows read_excel returned
  nodes,
  node_ids,
  links,
  seen_links,
  data,        \* the document extract_iso27000_from_excel returned
  out          \* index in OutputPaths of the path the save loop is at

vars == <<excel, files, pc, df, nodes, node_ids, links, seen_links, data, out>>

Init ==
  /\ excel \in Workbooks
  /\ files = FilesAtStart
  /\ pc = "read"
  /\ df = <<>>
  /\ nodes = <<>>
  /\ node_ids = {}
  /\ links = <<>>
  /\ seen_links = {}
  /\ data = NoDocument
  /\ out = 1

\* Variant: the exception of read_excel is swallowed and the run goes on
\* with an empty frame.
ReadExcelFailSwallowed ==
  /\ pc = "read"
  /\ excel.status # "ok"
  /\ pc' = "rows"
  /\ UNCHANGED <<excel, files, df, nodes, node_ids, links, seen_links, data, out>>

\* pd.read_excel raises: the run ends with the exception.
ReadExcelFail ==
  /\ pc = "read"
  /\ excel.status # "ok"
  /\ pc' = "read_failed"
  /\ UNCHANGED <<excel, files, df, nodes, node_ids, links, seen_links, data, out>>

\* df = pd.read_excel(excel_path, dtype={'Term_ID': str})
ReadExcel ==
  /\ pc = "read"
  /\ excel.status = "ok"
  /\ df' = excel.rows
  /\ pc' = "rows"
  /\ UNCHANGED <<excel, files, nodes, node_ids, links, seen_links, data, out>>

\* for _, row in df.iterrows(): ...
BuildNodes ==
  /\ pc = "rows"
  /\ nodes' = NodesOfRows(df)
  /\ node_ids' = IdsOf(NodesOfRows(df))
  /\ pc' = "filter"
  /\ UNCHANGED <<excel, files, df, links, seen_links, data, out>>

\* for node in nodes: node["related"] = [...]
FilterRelated ==
  /\ pc = "filter"
  /\ nodes' = FilterNodes(nodes, node_ids)
  /\ pc' = "links"
  /\ UNCHANGED <<excel, files, df, node_ids, links, seen_links, data, out>>

\* for node in nodes: for related_id in node["related"]: ...
LinkNodes ==
  /\ pc = "links"
  /\ links' = BuildLinks(nodes).links
  /\ seen_links' = BuildLinks(nodes).seen
  /\ pc' = "sort"
  /\ UNCHANGED <<excel, files, df, nodes, node_ids, data, out>>

\* nodes.sort(key=sort_key)
SortNodes ==
  /\ pc = "sort"
  /\ nodes' \in SortOutcomes(nodes)
  /\ pc' = "return"
  /\ UNCHANGED <<excel, files, df, node_ids, links, seen_links, data, out>>

\* metadata = {...}; return {...}; data = extract_iso27000_from_excel()
Return ==
  /\ pc = "return"
  /\ data' = Document(nodes, links)
  /\ out' = 1
  /\ pc' = "save"
  /\ UNCHANGED <<excel, files, df, nodes, node_ids, links, seen_links>>

\* One turn of the save loop: mkdir, open, json.dump.
Save ==
  /\ pc = "save"
  /\ files' = [files EXCEPT ![OutputPaths[out]] = Dumped(data)]
  /\ IF out = Len(OutputPaths)
     THEN pc' = "done" /\ out' = out
     ELSE pc' = "save" /\ out' = out + 1
  /\ UNCHANGED <<excel, df, nodes, node_ids, links, seen_links, data>>

\* A turn of the save loop raises: in mkdir or open, which leave the path as
\* it was, or in json.dump, after open has truncated the file.
SaveFail ==
  /\ pc = "save"
  /\ files' \in { files, [files EXCEPT ![OutputPaths[out]] = Partial] }
  /\ pc' = "save_failed"
  /\ UNCHANGED <<excel, df, nodes, node_ids, links, seen_links, data, out>>

Next ==
  \/ ReadExcelFail
  \/ ReadExcel
  \/ BuildNodes
  \/ FilterRelated
  \/ LinkNodes
  \/ SortNodes
  \/ Return
  \/ Save
  \/ SaveFail

Spec == Init /\ [][Next]_vars

\* The runs on a workbook in which every row has a value in its Term_ID
\* cell.
InitFilled ==
  /\ Init
  /\ \A i \in 1..Len(excel.rows) : NotNa(excel.rows[i].Term_ID)

SpecFilled == InitFilled /\ [][Next]_vars

\* ------------------------------------------------------------- properties
\* The run has returned from extract_iso27000_from_excel: data is the
\* returned document.
Returned == pc \in {"save", "save_failed", "done"}

NodeIx == 1..Len(data.nodes)

LinkIx == 1..Len(data.links)

InSeq(x, s) == \E k \in 1..Len(s) : s[k] = x

Pair(l) == {l.source, l.target}

\* text contains sub
Contains(text, sub) == \E i \in 1..Len(text) : StartsAt(text, i, sub)

\* "3." followed by one or more digits
WellFormedId(id) ==
  /\ Len(id) >= 3
  /\ StartsAt(id, 1, <<"3", ".">>)
  /\ \A k \in 3..Len(id) : IsDigit(id[k])

\* The nodes in source-row order, as they are when the links are built.
SourceOrderNodes ==
  LET ns == NodesOfRows(df)
  IN FilterNodes(ns, IdsOf(ns))

\* C1: no two nodes of the returned document have the same id.
C1_UniqueNodeIds ==
  Returned =>
    \A i, j \in NodeIx : i # j => data.nodes[i].id # data.nodes[j].id

\* A cell is blank when it is missing or holds whitespace only.
BlankCell(c) == IsNa(c) \/ Strip(c) = <<>>

BlankRow(row) == BlankCell(row.Term_ID) \/ BlankCell(row.Term)

\* C2: once the row loop has run, a row whose Term_ID or Term is blank
\* (missing or whitespace only) has produced no node and every other row
\* exactly one: there are as many nodes as rows that are not blank.
C2_BlankRowsSkipped ==
  pc \in {"filter", "links", "sort", "return"} =>
    Len(nodes) = Cardinality({ i \in 1..Len(df) : ~BlankRow(df[i]) })

\* C3: the returned links hold at most one link per unordered pair of ids.
C3_OneLinkPerPair ==
  Returned =>
    \A i, j \in LinkIx : i # j => Pair(data.links[i]) # Pair(data.links[j])

\* Two nodes reference each other, one of them more than once.
C3_Witness ==
  /\ pc = "done"
  /\ \E i, j \in NodeIx :
       /\ data.nodes[i].id # data.nodes[j].id
       /\ InSeq(data.nodes[j].id, data.nodes[i].related)
       /\ \E k, m \in 1..Len(data.nodes[j].related) :
            k # m /\ data.nodes[j].related[k] = data.nodes[i].id
                  /\ data.nodes[j].related[m] = data.nodes[i].id
       /\ Cardinality({ k \in LinkIx :
            Pair(data.links[k]) = {data.nodes[i].id, data.nodes[j].id} }) = 1

\* The links of the returned document for the pair {a, b} are exactly one
\* link, of type related, from the lexicographically smaller id to the
\* larger.
OneNormalisedLink(a, b) ==
  /\ Cardinality({ k \in LinkIx : Pair(data.links[k]) = {a, b} }) = 1
  /\ \A k \in LinkIx :
       Pair(data.links[k]) = {a, b} =>
         /\ data.links[k].type = "related"
         /\ StrLess(data.links[k].source, data.links[k].target)

\* C4 as stated: whenever the definition of a node A contains "(" + B.id +
\* ")" for another node B, whatever the shape of B.id, the pair has exactly
\* one normalised link.
C4_AnyIdReferenced ==
  Returned =>
    \A i, j \in NodeIx :
      ( /\ data.nodes[i].id # data.nodes[j].id
        /\ Contains(data.nodes[i].definition, Ref(data.nodes[j].id)) )
      => OneNormalisedLink(data.nodes[i].id, data.nodes[j].id)

\* C4 (amended): whenever the definition of a node A contains "(" + B.id +
\* ")" for another node B whose id is "3." followed by one or more digits,
\* links holds exactly one link for the pair, of type related, whose source
\* is the lexicographically smaller id and whose target the larger.
C4_OneLinkPerReference ==
  Returned =>
    \A i, j \in NodeIx :
      ( /\ data.nodes[i].id # data.nodes[j].id
        /\ WellFormedId(data.nodes[j].id)
        /\ Contains(data.nodes[i].definition, Ref(data.nodes[j].id)) )
      => OneNormalisedLink(data.nodes[i].id, data.nodes[j].id)

\* Only A's side declares the relation, after another reference, and A's id
\* is the larger one: the link runs from B to A.
C4_Witness ==
  /\ pc = "done"
  /\ \E i, j \in NodeIx :
       /\ data.nodes[i].id # data.nodes[j].id
       /\ WellFormedId(data.nodes[j].id)
       /\ Contains(data.nodes[i].definition, Ref(data.nodes[j].id))
       /\ ~Contains(data.nodes[j].definition, Ref(data.nodes[i].id))
       /\ Len(data.nodes[i].related) >= 2
       /\ data.nodes[i].related[1] # data.nodes[j].id
       /\ \E k \in LinkIx :
            data.links[k] = [source |-> data.nodes[j].id,
                             target |-> data.nodes[i].id, type |-> "related"]

\* C5: in the returned document every related entry and every link endpoint
\* is the id of a node, no related list holds its node's own id and no link
\* joins an id to itself.
C5_ClosureAndSelfExclusion ==
  Returned =>
    /\ \A i \in NodeIx : \A k \in 1..Len(data.nodes[i].related) :
         /\ data.nodes[i].related[k] \in IdsOf(data.nodes)
         /\ data.nodes[i].related[k] # data.nodes[i].id
    /\ \A k \in LinkIx :
         /\ data.links[k].source \in IdsOf(data.nodes)
         /\ data.links[k].target \in IdsOf(data.nodes)
         /\ data.links[k].source # data.links[k].target

\* A definition cites its own term and a term no row has, next to a
\* reference that is kept.
C5_Witness ==
  /\ pc = "done"
  /\ Len(data.links) > 0
  /\ \E i \in NodeIx :
       LET raw == extract_cross_refs(data.nodes[i].definition)
       IN /\ InSeq(data.nodes[i].id, raw)
          /\ \E k \in 1..Len(raw) : raw[k] \notin IdsOf(data.nodes)
  /\ \E i \in NodeIx : data.nodes[i].related # <<>>

\* The sort key the specification describes: the number after the literal
\* prefix "3.", and 0 for an id without the prefix or whose suffix is not a
\* number.
DescribedKey(id) ==
  IF StartsAt(id, 1, <<"3", ".">>)
  THEN LET v == ParseFloat(SubSeq(id, 3, Len(id)))
       IN IF v.kind \in {"bad", "nan"} THEN Num(0, 0) ELSE v
  ELSE Num(0, 0)

RECURSIVE InsertByDescribedKey(_, _)
InsertByDescribedKey(x, s) ==
  IF s = <<>> THEN <<x>>
  ELSE IF KeyLess(DescribedKey(x.id), DescribedKey(Head(s).id)) THEN <<x>> \o s
  ELSE <<Head(s)>> \o InsertByDescribedKey(x, Tail(s))

RECURSIVE SortByDescribedKey(_)
SortByDescribedKey(ns) ==
  IF ns = <<>> THEN <<>>
  ELSE InsertByDescribedKey(ns[Len(ns)], SortByDescribedKey(SubSeq(ns, 1, Len(ns) - 1)))

\* C6: the returned nodes are in non-decreasing order of the described key,
\* nodes of equal key in source-row order: they are the stable sort of the
\* source-order nodes by that key.
C6_SortedByDescribedKey ==
  Returned => data.nodes = SortByDescribedKey(SourceOrderNodes)

\* The row of the example: Term_ID "3.28", Term "information security" and
\* the definition "preservation of confidentiality... (see 3.41 and 3.64)".
ExampleRow == Row(T328, InformationSecurity, SeeText)

ExampleNodes ==
  { i \in NodeIx : /\ data.nodes[i].id = T328
                   /\ data.nodes[i].label = InformationSecurity
                   /\ data.nodes[i].definition = SeeText }

\* C7 as stated: the example row yields a top-concept node "3.28" whose
\* related list holds "3.41" and "3.64" whenever both are node ids.
C7_ExampleRelated ==
  (Returned /\ InSeq(ExampleRow, df)) =>
    /\ ExampleNodes # {}
    /\ \A i \in ExampleNodes :
         /\ data.nodes[i].isTopConcept
         /\ {T341, T364} \subseteq IdsOf(data.nodes) =>
              InSeq(T341, data.nodes[i].related) /\ InSeq(T364, data.nodes[i].related)

\* C7 (amended): the example row yields a top-concept node "3.28" whose
\* related list holds neither "3.41" nor "3.64", also when both are node
\* ids: "(see 3.41 and 3.64)" is no "(3.NN)" cross-reference.
C7_ExampleNotRelated ==
  (Returned /\ InSeq(ExampleRow, df)) =>
    /\ ExampleNodes # {}
    /\ \A i \in ExampleNodes :
         /\ data.nodes[i].isTopConcept
         /\ ~InSeq(T341, data.nodes[i].related)
         /\ ~InSeq(T364, data.nodes[i].related)

\* The example row in a sheet that also has the terms 3.41 and 3.64.
C7_Witness ==
  /\ pc = "done"
  /\ InSeq(ExampleRow, df)
  /\ {T341, T364} \subseteq IdsOf(data.nodes)
  /\ ExampleNodes # {}

\* C8: the statistics of the returned document count its nodes, its links
\* and its top concepts, and a node is a top concept exactly when its id is
\* "3.28", "3.41" or "3.64".
C8_StatsConsistent ==
  Returned =>
    /\ data.metadata.stats.totalTerms = Len(data.nodes)
    /\ data.metadata.stats.totalRelationships = Len(data.links)
    /\ data.metadata.stats.topConcepts =
         Cardinality({ i \in NodeIx : data.nodes[i].isTopConcept })
    /\ \A i \in NodeIx :
         data.nodes[i].isTopConcept <=> data.nodes[i].id \in {T328, T341, T364}

\* A document with top concepts, other terms, and a relation declared from
\* both sides.
C8_Witness ==
  /\ pc = "done"
  /\ data.metadata.stats.topConcepts >= 1
  /\ data.metadata.stats.topConcepts < data.metadata.stats.totalTerms
  /\ data.metadata.stats.totalRelationships >= 1
  /\ \E i, j \in NodeIx :
       /\ InSeq(data.nodes[j].id, data.nodes[i].related)
       /\ InSeq(data.nodes[i].id, data.nodes[j].related)

\* C9: after a failed read no output path is ever created or overwritten
\* (the paths change only in the save loop of a run whose read succeeded);
\* the save loop writes the returned document to the first path and then to
\* the second, and a failure at the second leaves the first written.
C9_OutputsOnlyAfterLoad ==
  /\ [](pc = "read_failed" => files = FilesAtStart)
  /\ [][files' # files => (excel.status = "ok" /\ pc = "save")]_vars
  /\ []((pc \in {"save", "save_failed"} /\ out = 2) =>
          files[OutputPaths[1]] = Dumped(data))
  /\ [](pc = "done" =>
          \A k \in 1..Len(OutputPaths) : files[OutputPaths[k]] = Dumped(data))

\* The read has failed and the run has ended with both paths as they were.
C9_Witness ==
  /\ pc = "read_failed"
  /\ excel.status \in {"missing", "corrupt"}
  /\ files[OutputPaths[1]] = Stale
  /\ files[OutputPaths[2]] = Absent

\* The pairs {node id, related id} in the order in which a scan of the nodes
\* ns, each with its related list, meets them.
RECURSIVE PairsInScanOrder(_)
PairsInScanOrder(ns) ==
  IF ns = <<>> THEN <<>>
  ELSE [k \in 1..Len(Head(ns).related) |-> {Head(ns).id, Head(ns).related[k]}]
       \o PairsInScanOrder(Tail(ns))

\* index at which the scan first meets pair p, 0 if it never does
FirstDiscovery(scan, p) ==
  IF \E j \in 1..Len(scan) : scan[j] = p
  THEN CHOOSE j \in 1..Len(scan) : scan[j] = p /\ \A i \in 1..(j - 1) : scan[i] # p
  ELSE 0

\* links ls are in the order in which the scan first meets their pairs
InDiscoveryOrder(scan, ls) ==
  /\ \A k \in 1..Len(ls) : FirstDiscovery(scan, Pair(ls[k])) > 0
  /\ \A k \in 1..(Len(ls) - 1) :
       FirstDiscovery(scan, Pair(ls[k])) < FirstDiscovery(scan, Pair(ls[k + 1]))

\* The ids of the rows that yield a node, in row order.
RECURSIVE IdsInRowOrder(_)
IdsInRowOrder(rows) ==
  IF rows = <<>> THEN <<>>
  ELSE IF Skipped(Head(rows)) THEN IdsInRowOrder(Tail(rows))
  ELSE <<TermIdOf(Head(rows))>> \o IdsInRowOrder(Tail(rows))

\* C10: every returned link is backed by a reference in the related list of
\* one of its two ends; when the links have been built the nodes are still
\* in source-row order and the links are in the order in which a scan of
\* these nodes first meets their pairs; sorting the nodes and returning
\* leave the links as they are.
C10_LinksSoundInDiscoveryOrder ==
  /\ [](Returned =>
          \A k \in LinkIx : \E i \in NodeIx :
            \/ /\ data.nodes[i].id = data.links[k].source
               /\ InSeq(data.links[k].target, data.nodes[i].related)
            \/ /\ data.nodes[i].id = data.links[k].target
               /\ InSeq(data.links[k].source, data.nodes[i].related))
  /\ [](pc = "sort" =>
          /\ [i \in 1..Len(nodes) |-> nodes[i].id] = IdsInRowOrder(df)
          /\ InDiscoveryOrder(PairsInScanOrder(nodes), links))
  /\ [][(pc = "sort" \/ pc = "return") => (links' = links)]_vars
  /\ [](Returned => data.links = links)

\* Several links, and a sort that moved the nodes so that a scan of the
\* sorted nodes would meet the pairs in another order.
C10_Witness ==
  /\ pc = "done"
  /\ Len(data.links) >= 2
  /\ data.nodes # SourceOrderNodes
  /\ BuildLinks(data.nodes).links # data.links

====
